---- MODULE Spec2Model ----
(***************************************************************************)
(* The real-time connection and signaling core of b4nter:                  *)
(* backend/websocket_manager.py (WebSocketManager and the module-level     *)
(* maps) together with the /ws/{user_id} endpoint of backend/main.py.      *)
(*                                                                         *)
(* One action is the handling of one inbound frame (or one lifecycle       *)
(* event) of one socket, run to completion.  The outcome of every outbound *)
(* send (it returns, or it raises) and of every call of the persistence    *)
(* collaborator is an input of the action.  Tasks started with             *)
(* asyncio.create_task are queued and run later, in FIFO order.  The       *)
(* reaction handlers may also be suspended at the await of their fan-out,  *)
(* and send_message may be shown inside its call of the store: `running`   *)
(* holds the handlers that have begun and not returned.                    *)
(***************************************************************************)
EXTENDS Integers, Sequences, FiniteSets, TLC

\* ------------------------------------------------------------------ bounds
\* open sockets that are not the registered socket of their identity (superseded
\* by a later handshake, or de-registered after a failed send)
MaxStale == 1
\* tasks created by disconnect() that have not run yet
MaxTasks == 2
\* handlers that are suspended at an await at the same time
MaxRunning == 1

\* ------------------------------------------------------------------ inputs
Users == {"u1", "u2", "u3"}
UserOrder == <<"u1", "u2", "u3">>
Pair == {"u1", "u2"}
None == "None"
\* a channel name known to the channels table, the id of that channel, and a
\* name the table does not hold
GeneralName == "general"
GeneralUuid == "11111111-1111-4111-8111-111111111111"
GhostName == "ghost"
ChannelIds == {GeneralName, GeneralUuid}
CallRooms == {"call-A", "call-B"}
Kinds == {"offer", "answer", "ice-candidate"}
\* the signaling frames of the older call protocols
WebrtcKinds == {"webrtc_offer", "webrtc_answer", "webrtc_ice_candidate"}
VideoCallKinds == {"video_call_offer", "video_call_answer"}
\* what the persistence collaborator assigns, and what a client may put in a frame
ServerId == "srv-id"
ServerTs == "srv-ts"
ClientId == "cli-id"
ClientTs == "cli-ts"
Payloads == {"sdp"}
\* the message the reaction frames are about, and the emojis a frame may carry
MessageId == "m1"
Emojis == {"thumbsup", "heart"}
\* how an outbound send that fails raises: starlette's WebSocketDisconnect or
\* any other exception
ExcKinds == {"WebSocketDisconnect", "Exception"}

Handles == Users \X (1..(MaxStale + 1))
owner(h) == h[1]

VARIABLES
    ws,                \* socket -> "none" | "open": the endpoint task of the socket is in its receive loop
    user_connections,  \* dict user_id -> socket (self.user_connections)
    connected_users,   \* dict user_id -> socket (module level)
    user_channels,     \* dict user_id -> list of joined channel ids (module level)
    video_rooms,       \* ordered dict room_id -> participants, as a sequence in insertion order
    tasks,             \* create_task'ed send_to_user calls not yet run: <<[to, left]>>
    message_reactions, \* the rows of table message_reactions for the one message: <<user_id, emoji>>
    running,           \* socket -> the handler of its last frame, which has not returned yet
    sent,              \* the events written to sockets by the last step, in order
    lastOp             \* what the last step was, its inputs and what it did

vars == <<ws, user_connections, connected_users, user_channels, video_rooms, tasks,
          message_reactions, running, sent, lastOp>>

\* ----------------------------------------------------------------- helpers
\* The sockets of one identity are named by age among its open sockets: the
\* oldest is <<user_id, 1>>.  A new handshake gets the next name.
OpenCount(user_id) == Cardinality({k \in 1..(MaxStale + 1) : ws[<<user_id, k>>] = "open"})

FreeSlot(user_id) == <<user_id, OpenCount(user_id) + 1>>

Ev(h, to, type, a, b) == [ws |-> h, to |-> to, type |-> type, a |-> a, b |-> b]

Drop(f, k) == IF DOMAIN f \ {k} = {} THEN << >> ELSE [x \in DOMAIN f \ {k} |-> f[x]]
Put(f, k, v) == [x \in DOMAIN f \cup {k} |-> IF x = k THEN v ELSE f[x]]

\* the users of S in the fixed order the model iterates them in
InOrder(S) == SelectSeq(UserOrder, LAMBDA u : u \in S)

\* the entries of a list
Channels(list) == {list[i] : i \in 1..Len(list)}

\* list.remove(x): the first entry equal to x goes
RemoveFirst(list, x) ==
    LET k == CHOOSE i \in 1..Len(list) : list[i] = x /\ \A j \in 1..(i - 1) : list[j] # x
    IN  SubSeq(list, 1, k - 1) \o SubSeq(list, k + 1, Len(list))

RoomIds(rooms) == {rooms[i].id : i \in 1..Len(rooms)}
RoomOf(rooms, r) == rooms[CHOOSE i \in 1..Len(rooms) : rooms[i].id = r]
ParticipantsOf(rooms, r) == IF r \in RoomIds(rooms) THEN RoomOf(rooms, r).parts ELSE {}

\* The working state of a handler: the maps, the task queue, and what the
\* handler has written, failed to write, closed and announced so far.
Machine ==
    [uc |-> user_connections, cu |-> connected_users, ch |-> user_channels,
     vr |-> video_rooms, tk |-> tasks, rx |-> message_reactions, rn |-> running,
     sent |-> <<>>, failed |-> {}, closed |-> <<>>, offline |-> <<>>]

\* ------------------------------------------------------------- disconnect
\* a disconnect() that tells nobody
Notes_none(targets, user_id) == << >>

\* the notifications disconnect() schedules for the participants left in a room
RECURSIVE Notes(_, _)
Notes(targets, user_id) ==
    IF targets = <<>> THEN <<>>
    ELSE <<[to |-> Head(targets), left |-> user_id]>> \o Notes(Tail(targets), user_id)

\* a room loop that leaves the rooms it has emptied in place
RECURSIVE CleanRooms_keep_empty(_, _)
CleanRooms_keep_empty(rooms, user_id) ==
    IF rooms = <<>> THEN [rooms |-> <<>>, tasks |-> <<>>]
    ELSE LET room == Head(rooms)
             rest == CleanRooms_keep_empty(Tail(rooms), user_id)
         IN  IF user_id \in room.parts
             THEN LET remaining == room.parts \ {user_id}
                  IN  [rooms |-> <<[room EXCEPT !.parts = remaining]>> \o rest.rooms,
                       tasks |-> Notes(InOrder(remaining), user_id) \o rest.tasks]
             ELSE [rooms |-> <<room>> \o rest.rooms, tasks |-> rest.tasks]

\* the room loop of disconnect(): the user leaves every room it is in, the
\* rooms it leaves empty are removed, the remaining participants get a task
RECURSIVE CleanRooms(_, _)
CleanRooms(rooms, user_id) ==
    IF rooms = <<>> THEN [rooms |-> <<>>, tasks |-> <<>>]
    ELSE LET room == Head(rooms)
             rest == CleanRooms(Tail(rooms), user_id)
         IN  IF user_id \in room.parts
             THEN LET remaining == room.parts \ {user_id}
                  IN  [rooms |-> IF remaining = {} THEN rest.rooms
                                 ELSE <<[room EXCEPT !.parts = remaining]>> \o rest.rooms,
                       tasks |-> Notes(InOrder(remaining), user_id) \o rest.tasks]
             ELSE [rooms |-> <<room>> \o rest.rooms, tasks |-> rest.tasks]

\* the first definition of disconnect in the class (the later one replaces it):
\* no video room cleanup
disconnect_first_def(M, user_id) ==
    IF user_id \in DOMAIN M.uc
    THEN [M EXCEPT !.uc = Drop(@, user_id), !.cu = Drop(@, user_id),
                   !.ch = Drop(@, user_id), !.closed = Append(@, user_id)]
    ELSE [M EXCEPT !.closed = Append(@, user_id)]

\* a disconnect() that leaves the list of joined channels of the user behind
disconnect_keep_channels(M, user_id) ==
    LET c == CleanRooms(M.vr, user_id)
        M1 == [M EXCEPT !.vr = c.rooms, !.tk = @ \o c.tasks,
                        !.closed = Append(@, user_id)]
    IN  IF user_id \in DOMAIN M.uc
        THEN [M1 EXCEPT !.uc = Drop(@, user_id), !.cu = Drop(@, user_id)]
        ELSE M1

disconnect(M, user_id) ==
    LET c == CleanRooms(M.vr, user_id)
        M1 == [M EXCEPT !.vr = c.rooms, !.tk = @ \o c.tasks,
                        !.closed = Append(@, user_id)]
    IN  IF user_id \in DOMAIN M.uc
        THEN [M1 EXCEPT !.uc = Drop(@, user_id), !.cu = Drop(@, user_id),
                        !.ch = Drop(@, user_id)]
        ELSE M1

RECURSIVE disconnect_all(_, _)
disconnect_all(M, us) ==
    IF us = <<>> THEN M ELSE disconnect_all(disconnect(M, Head(us)), Tail(us))

\* ---------------------------------------------------------------- delivery
\* a send_to_user whose except clause logs the failure and nothing else
send_to_user_log_only(M, user_id, type, a, b, bad) ==
    IF user_id \in DOMAIN M.uc
    THEN LET h == M.uc[user_id]
         IN  IF h \in bad
             THEN [M EXCEPT !.failed = @ \cup {h}]
             ELSE [M EXCEPT !.sent = Append(@, Ev(h, user_id, type, a, b))]
    ELSE M

\* send_to_user: the write to the registered socket of user_id; a write that
\* raises disconnects user_id; no registered socket, nothing happens
send_to_user(M, user_id, type, a, b, bad) ==
    IF user_id \in DOMAIN M.uc
    THEN LET h == M.uc[user_id]
         IN  IF h \in bad
             THEN disconnect([M EXCEPT !.failed = @ \cup {h}], user_id)
             ELSE [M EXCEPT !.sent = Append(@, Ev(h, user_id, type, a, b))]
    ELSE M

RECURSIVE SendEach(_, _, _, _, _)
SendEach(M, us, type, a, b) ==
    IF us = <<>> THEN M
    ELSE SendEach([M EXCEPT !.sent = Append(@, Ev(M.uc[Head(us)], Head(us), type, a, b))],
                  Tail(us), type, a, b)

\* the users broadcast_to_channel writes to: joined under exactly this id, and registered
ChannelTargets(M, channel_id) ==
    {u \in DOMAIN M.ch : channel_id \in Channels(M.ch[u]) /\ u \in DOMAIN M.uc}

\* a broadcast whose loop has no try: the first send that raises ends it
broadcast_to_channel_abort(M, channel_id, type, a, b, bad) ==
    LET targets == ChannelTargets(M, channel_id)
        disconnected_users == {u \in targets : M.uc[u] \in bad}
        before == {u \in targets : \A d \in disconnected_users :
                      \E i, j \in 1..Len(UserOrder) : UserOrder[i] = u /\ UserOrder[j] = d /\ i < j}
        M1 == SendEach(M, InOrder(before), type, a, b)
    IN  [M1 EXCEPT !.failed = @ \cup {M.uc[u] : u \in disconnected_users}]

\* broadcast_to_channel: every send has its own try; the users whose send
\* raised are collected and disconnected after the loop
broadcast_to_channel(M, channel_id, type, a, b, bad) ==
    LET targets == ChannelTargets(M, channel_id)
        disconnected_users == {u \in targets : M.uc[u] \in bad}
        M1 == SendEach(M, InOrder(targets \ disconnected_users), type, a, b)
        M2 == [M1 EXCEPT !.failed = @ \cup {M.uc[u] : u \in disconnected_users}]
    IN  disconnect_all(M2, InOrder(disconnected_users))

\* a status broadcast that closes the users whose send raised
broadcast_user_status_close_failed(M, user_id, status, bad) ==
    LET M1 == SendEach(M, InOrder({u \in DOMAIN M.uc : M.uc[u] \notin bad}),
                       "user_status", user_id, status)
        M2 == [M1 EXCEPT !.failed = @ \cup {M.uc[u] : u \in {x \in DOMAIN M.uc : M.uc[x] \in bad}},
                         !.offline = IF status = "offline" THEN Append(@, user_id) ELSE @]
    IN  disconnect_all(M2, InOrder({x \in DOMAIN M.uc : M.uc[x] \in bad}))

\* a send that raises is logged and nothing else
broadcast_user_status(M, user_id, status, bad) ==
    LET M1 == SendEach(M, InOrder({u \in DOMAIN M.uc : M.uc[u] \notin bad}),
                       "user_status", user_id, status)
    IN  [M1 EXCEPT !.failed = @ \cup {M.uc[u] : u \in {x \in DOMAIN M.uc : M.uc[x] \in bad}},
                   !.offline = IF status = "offline" THEN Append(@, user_id) ELSE @]

\* ------------------------------------------------------------- persistence
\* the channels table: one channel, named GeneralName
get_channel_by_name(name) == IF name = GeneralName THEN GeneralUuid ELSE None

IsUuid(s) == s = GeneralUuid

\* get_channel_by_name returns None too when its query raises: that case is
\* the case of a name the table does not hold
get_channel_uuid(channel_id_or_name) ==
    IF channel_id_or_name = None THEN None
    ELSE IF IsUuid(channel_id_or_name) THEN channel_id_or_name
    ELSE get_channel_by_name(channel_id_or_name)

\* the record create_message returns for a stored message
SavedMessage == [id |-> ServerId, created_at |-> ServerTs]

\* the id and timestamp of the outbound message: those of the stored record
message_response(saved_message, frame) ==
    [id |-> saved_message.id, created_at |-> saved_message.created_at]

\* ------------------------------------------------------------ bookkeeping
NoHandle == <<None, 0>>

\* a receive loop that takes the next frame while the handler of the last one runs
Receiving_any(h) == ws[h] = "open"

\* the task of socket h is at `await websocket.receive_text()`: its loop calls
\* the handler of a frame and awaits it before it receives the next frame
Receiving(h) == ws[h] = "open" /\ h \notin DOMAIN running

\* a handler is inside a call of the persistence client, which does not
\* return control to the event loop before it has its answer
Blocked == \E h \in DOMAIN running : running[h].at = "create_message"

\* the maps as the step found them
Pre ==
    [ws |-> ws, uc |-> user_connections, ch |-> user_channels, vr |-> video_rooms, tk |-> tasks,
     rx |-> message_reactions, rn |-> running]

\* db: what the persistence calls of send_message did (None for other steps);
\* exc: the exception that left the handler (None: it returned)
OpRec(op, h, a1, a2, db, exc, M) ==
    [op |-> op, user |-> owner(h), ws |-> h, a1 |-> a1, a2 |-> a2,
     db |-> db, exc |-> exc, pre |-> Pre,
     failed |-> M.failed, closed |-> M.closed, offline |-> M.offline]

\* the step ends with the maps of M; the socket states are given
Stale(M, sockets) ==
    {h \in Handles : sockets[h] = "open" /\ (owner(h) \notin DOMAIN M.uc \/ M.uc[owner(h)] # h)}

Commit(M, sockets, op) ==
    /\ Len(M.tk) <= MaxTasks
    /\ Cardinality(DOMAIN M.rn) <= MaxRunning
    /\ Cardinality(Stale(M, sockets)) <= MaxStale
    /\ ws' = sockets
    /\ user_connections' = M.uc
    /\ connected_users' = M.cu
    /\ user_channels' = M.ch
    /\ video_rooms' = M.vr
    /\ tasks' = M.tk
    /\ message_reactions' = M.rx
    /\ running' = M.rn
    /\ sent' = M.sent
    /\ lastOp' = op

\* the handlers of handle_websocket_message's two except clauses, after which
\* the receive loop of the socket is over
Raised(M, h, exc, bad) ==
    IF exc = "WebSocketDisconnect"
    THEN broadcast_user_status(disconnect(M, owner(h)), owner(h), "offline", bad)
    ELSE disconnect(M, owner(h))

\* The task of socket h is over.  Every path to here has de-registered the
\* owner, so its remaining sockets are all alike: they move up a name.
Closed(h) == [ws EXCEPT ![<<owner(h), OpenCount(owner(h))>>] = "none"]

\* the handlers of the younger sockets of the owner move up with them
Unwind(M, h) ==
    LET moved(g) == IF owner(g) = owner(h) /\ g[2] > h[2] THEN <<g[1], g[2] - 1>> ELSE g
        keys == {moved(g) : g \in DOMAIN M.rn}
    IN  IF keys = {} THEN M
        ELSE [M EXCEPT !.rn = [k \in keys |-> M.rn[CHOOSE g \in DOMAIN M.rn : moved(g) = k]]]

\* ---------------------------------------------------------------- actions
\* no handler is running: every task waits for its next event
IdleRec ==
    [op |-> "idle", user |-> None, ws |-> NoHandle, a1 |-> None, a2 |-> None,
     db |-> None, exc |-> None,
     pre |-> [ws |-> [h \in Handles |-> "none"], uc |-> << >>, ch |-> << >>, vr |-> << >>, tk |-> << >>,
              rx |-> {}, rn |-> << >>],
     failed |-> {}, closed |-> << >>, offline |-> << >>]

Idle == lastOp.op = "idle"

Init ==
    /\ ws = [h \in Handles |-> "none"]
    /\ user_connections = << >>
    /\ connected_users = << >>
    /\ user_channels = << >>
    /\ video_rooms = << >>
    /\ tasks = << >>
    /\ message_reactions = {}
    /\ running = << >>
    /\ sent = << >>
    /\ lastOp = IdleRec

\* connect() registers the socket under user_id, replacing what was there
connect_keep_existing(M, websocket, user_id) ==
    IF user_id \in DOMAIN M.uc THEN M
    ELSE [M EXCEPT !.uc = Put(@, user_id, websocket), !.cu = Put(@, user_id, websocket),
                   !.ch = Put(@, user_id, << >>)]

\* a connect() that leaves the list of a user that has one as it is
connect_keep_channels(M, websocket, user_id) ==
    [M EXCEPT !.uc = Put(@, user_id, websocket), !.cu = Put(@, user_id, websocket),
              !.ch = IF user_id \in DOMAIN @ THEN @ ELSE Put(@, user_id, << >>)]

connect(M, websocket, user_id) ==
    [M EXCEPT !.uc = Put(@, user_id, websocket), !.cu = Put(@, user_id, websocket),
              !.ch = Put(@, user_id, << >>)]

\* an open that only logs an acknowledgement that could not be written
Open_log_failed_ack(user_id, ackOk) ==
    /\ OpenCount(user_id) <= MaxStale
    /\ LET h == FreeSlot(user_id)
           M0 == connect(Machine, h, user_id)
           M1 == IF ackOk
                 THEN [M0 EXCEPT !.sent = Append(@, Ev(h, user_id, "connection_established", user_id, None))]
                 ELSE [M0 EXCEPT !.failed = {h}]
       IN  Commit(M1, [ws EXCEPT ![h] = "open"],
                  OpRec("connect", h, None, None, None, None, M1))

\* websocket_endpoint up to the receive loop: accept, connect(), acknowledgement
Open(user_id, ackOk) ==
    /\ OpenCount(user_id) <= MaxStale
    /\ LET h == FreeSlot(user_id)
           M0 == connect(Machine, h, user_id)
           M1 == IF ackOk
                 THEN [M0 EXCEPT !.sent = Append(@, Ev(h, user_id, "connection_established", user_id, None))]
                 ELSE disconnect([M0 EXCEPT !.failed = {h}], user_id)
       IN  Commit(M1, [ws EXCEPT ![h] = "open"],
                  OpRec("connect", h, None, None, None, None, M1))

\* receive_text raises WebSocketDisconnect: the client went away
ClientDisconnect(h, bad) ==
    /\ Receiving(h)
    /\ LET M1 == Raised(Machine, h, "WebSocketDisconnect", bad)
       IN  Commit(Unwind(M1, h), Closed(h),
                  OpRec("client_disconnect", h, None, None, None, "WebSocketDisconnect", M1))

\* a frame that json.loads rejects
BadFrame(h) ==
    /\ Receiving(h)
    /\ LET M1 == Raised(Machine, h, "Exception", {})
       IN  Commit(Unwind(M1, h), Closed(h),
                  OpRec("bad_frame", h, None, None, None, "Exception", M1))

\* 'ping': the pong goes to the socket the frame came in on
Ping(h, pongOk) ==
    /\ Receiving(h)
    /\ IF pongOk
       THEN LET M1 == [Machine EXCEPT !.sent = <<Ev(h, owner(h), "pong", None, None)>>]
            IN  Commit(M1, ws, OpRec("ping", h, None, None, None, None, M1))
       ELSE LET M1 == disconnect([Machine EXCEPT !.failed = {h}], owner(h))
            IN  Commit(Unwind(M1, h), Closed(h), OpRec("ping", h, None, None, None, None, M1))

\* a join that appends whatever the list holds
AddChannel_always(channels, channel_id) == Append(channels, channel_id)

\* join_channel's update of the list of the user: appended once
AddChannel(channels, channel_id) ==
    IF channel_id \in Channels(channels) THEN channels ELSE Append(channels, channel_id)

\* 'join_channel'
JoinChannel(h, channel_id, bad, exc) ==
    /\ Receiving(h)
    /\ LET user_id == owner(h)
       IN  IF user_id \in DOMAIN user_connections
           THEN LET websocket == user_connections[user_id]
                    M0 == [Machine EXCEPT !.ch = Put(@, user_id,
                              AddChannel(IF user_id \in DOMAIN @ THEN @[user_id] ELSE << >>, channel_id))]
                IN  IF websocket \in bad
                    THEN LET M1 == Raised([M0 EXCEPT !.failed = {websocket}], h, exc, bad)
                         IN  Commit(Unwind(M1, h), Closed(h),
                                    OpRec("join_channel", h, channel_id, None, None, exc, M1))
                    ELSE LET M1 == [M0 EXCEPT !.sent = <<Ev(websocket, user_id, "channel_joined", channel_id, user_id)>>]
                         IN  Commit(M1, ws,
                                    OpRec("join_channel", h, channel_id, None, None, None, M1))
           ELSE Commit(Machine, ws,
                       OpRec("join_channel", h, channel_id, None, None, None, Machine))

\* 'leave_channel'
LeaveChannel(h, channel_id, bad, exc) ==
    /\ Receiving(h)
    /\ LET user_id == owner(h)
       IN  IF user_id \in DOMAIN user_channels /\ channel_id \in Channels(user_channels[user_id])
           THEN LET M0 == [Machine EXCEPT !.ch[user_id] = RemoveFirst(@, channel_id)]
                IN  IF user_id \in DOMAIN user_connections
                    THEN LET websocket == user_connections[user_id]
                         IN  IF websocket \in bad
                             THEN LET M1 == Raised([M0 EXCEPT !.failed = {websocket}], h, exc, bad)
                                  IN  Commit(Unwind(M1, h), Closed(h),
                                             OpRec("leave_channel", h, channel_id, None, None, exc, M1))
                             ELSE LET M1 == [M0 EXCEPT !.sent = <<Ev(websocket, user_id, "channel_left", channel_id, user_id)>>]
                                  IN  Commit(M1, ws,
                                             OpRec("leave_channel", h, channel_id, None, None, None, M1))
                    ELSE Commit(M0, ws, OpRec("leave_channel", h, channel_id, None, None, None, M0))
           ELSE Commit(Machine, ws,
                       OpRec("leave_channel", h, channel_id, None, None, None, Machine))

\* send_message without the test of what create_message returned
send_message_unchecked(M, sender_id, frame, stored, senderFound, bad) ==
    LET channel_id == get_channel_uuid(frame.channel_id)
        msg == message_response(SavedMessage, frame)
    IN  IF frame.channel_id # None /\ channel_id = None THEN M
        ELSE IF ~senderFound THEN M
        ELSE IF channel_id # None
             THEN broadcast_to_channel(M, channel_id, "new_channel_message", msg.id, msg.created_at, bad)
        ELSE IF frame.recipient_id # None
             THEN send_to_user(send_to_user(M, frame.recipient_id, "new_direct_message", msg.id, msg.created_at, bad),
                               sender_id, "new_direct_message", msg.id, msg.created_at, bad)
        ELSE M

\* a send_message whose room broadcast leaves the sender out
send_message_skip_sender(M, sender_id, frame, stored, senderFound, bad) ==
    send_message_unchecked([M EXCEPT !.ch = Drop(@, sender_id)], sender_id, frame,
                           stored, stored /\ senderFound, bad)

\* a send_message that keeps the direct message of an absent recipient for later
send_message_queue_offline(M, sender_id, frame, stored, senderFound, bad) ==
    LET M0 == send_message_unchecked(M, sender_id, frame, stored, senderFound, bad)
    IN  IF ~stored THEN M
        ELSE IF frame.channel_id = None /\ frame.recipient_id # None /\ frame.recipient_id \notin DOMAIN M.uc
             THEN [M0 EXCEPT !.tk = Append(@, [to |-> frame.recipient_id, left |-> sender_id])]
             ELSE M0

\* send_message: the maps and the events after it.  stored: create_message
\* returned a record; senderFound: get_user_by_id returned the sender
send_message(M, sender_id, frame, stored, senderFound, bad) ==
    LET channel_id == get_channel_uuid(frame.channel_id)
        msg == message_response(SavedMessage, frame)
    IN  IF frame.channel_id # None /\ channel_id = None THEN M
        ELSE IF ~stored THEN M
        ELSE IF ~senderFound THEN M
        ELSE IF channel_id # None
             THEN broadcast_to_channel(M, channel_id, "new_channel_message", msg.id, msg.created_at, bad)
        ELSE IF frame.recipient_id # None
             THEN send_to_user(send_to_user(M, frame.recipient_id, "new_direct_message", msg.id, msg.created_at, bad),
                               sender_id, "new_direct_message", msg.id, msg.created_at, bad)
        ELSE M

\* how far send_message got with the persistence collaborator
DbOutcome(frame, stored, senderFound) ==
    IF frame.channel_id # None /\ get_channel_uuid(frame.channel_id) = None THEN "channel_not_found"
    ELSE IF ~stored THEN "store_failed"
    ELSE IF ~senderFound THEN "sender_not_found"
    ELSE "stored"

Frame(channel_id, recipient_id) ==
    [channel_id |-> channel_id, recipient_id |-> recipient_id, id |-> ClientId, created_at |-> ClientTs]

\* 'send_message'
SendMessage(h, channel_id, recipient_id, stored, senderFound, bad) ==
    /\ Receiving(h)
    /\ LET frame == Frame(channel_id, recipient_id)
           M1 == send_message(Machine, owner(h), frame, stored, senderFound, bad)
       IN  Commit(M1, ws,
                  OpRec("send_message", h, channel_id, recipient_id,
                        DbOutcome(frame, stored, senderFound), None, M1))

\* ------------------------------------------------------------- call rooms
\* the orders in which a loop may meet the participants S of a room
Orders(S) == {o \in [1..Cardinality(S) -> S] : \A i, j \in 1..Cardinality(S) : o[i] = o[j] => i = j}

AddParticipant(rooms, room_id, participant_id) ==
    LET rooms0 == IF room_id \in RoomIds(rooms) THEN rooms
                  ELSE Append(rooms, [id |-> room_id, parts |-> {}])
    IN  [i \in 1..Len(rooms0) |->
            IF rooms0[i].id = room_id
            THEN [rooms0[i] EXCEPT !.parts = @ \cup {participant_id}]
            ELSE rooms0[i]]

\* the loop that tells the participants already in the room about the new one.
\* A send_to_user that fails disconnects its target, which deletes the target
\* from the dict the loop iterates: the loop's next step raises RuntimeError.
RECURSIVE NotifyJoined(_, _, _, _)
NotifyJoined(M, todo, participant_id, bad) ==
    IF todo = <<>> THEN [m |-> M, raised |-> FALSE]
    ELSE LET p == Head(todo)
             M1 == send_to_user(M, p, "user-joined", participant_id, None, bad)
         IN  IF p \in DOMAIN M.uc /\ M.uc[p] \in bad
             THEN [m |-> M1, raised |-> TRUE]
             ELSE NotifyJoined(M1, Tail(todo), participant_id, bad)

handle_sfu_join_room(M, user_id, room_id, user_name, order, bad) ==
    IF room_id = None \/ user_name = None
    THEN [m |-> send_to_user(M, user_id, "error", "Room ID and user name are required", None, bad),
          raised |-> FALSE]
    ELSE LET M1 == [M EXCEPT !.vr = AddParticipant(@, room_id, user_id)]
             M2 == send_to_user(M1, user_id, "joined-room", room_id, None, bad)
         IN  NotifyJoined(M2, order, user_id, bad)

\* 'join-room'
SfuJoinRoom(h, room_id, user_name, order, bad) ==
    /\ Receiving(h)
    /\ order \in Orders(ParticipantsOf(video_rooms, room_id) \ {owner(h)})
    /\ LET r == handle_sfu_join_room(Machine, owner(h), room_id, user_name, order, bad)
       IN  IF r.raised
           THEN LET M1 == Raised(r.m, h, "Exception", bad)
                IN  Commit(Unwind(M1, h), Closed(h),
                           OpRec("join-room", h, room_id, user_name, None, "Exception", M1))
           ELSE Commit(r.m, ws,
                       OpRec("join-room", h, room_id, user_name, None, None, r.m))

\* the first room, in the order of the dict, that holds user_id (0: none)
FirstRoomWith(rooms, user_id) ==
    IF \E i \in 1..Len(rooms) : user_id \in rooms[i].parts
    THEN CHOOSE i \in 1..Len(rooms) :
            /\ user_id \in rooms[i].parts
            /\ \A j \in 1..(i - 1) : user_id \notin rooms[j].parts
    ELSE 0

\* a relay that does not look the target up in the sender's room
sfu_forward_any_target(M, user_id, type, target_id, payload, bad) ==
    IF target_id = None \/ payload = None THEN M
    ELSE IF FirstRoomWith(M.vr, user_id) = 0 THEN M
    ELSE send_to_user(M, target_id, type, user_id, payload, bad)

\* the body the three relay handlers share, the event type apart
sfu_forward(M, user_id, type, target_id, payload, bad) ==
    IF target_id = None \/ payload = None THEN M
    ELSE LET i == FirstRoomWith(M.vr, user_id)
         IN  IF i = 0 THEN M
             ELSE IF target_id \in M.vr[i].parts
                  THEN send_to_user(M, target_id, type, user_id, payload, bad)
                  ELSE M

handle_sfu_offer(M, user_id, target_id, offer, bad) ==
    sfu_forward(M, user_id, "offer", target_id, offer, bad)

handle_sfu_answer(M, user_id, target_id, answer, bad) ==
    sfu_forward(M, user_id, "answer", target_id, answer, bad)

handle_sfu_ice_candidate(M, user_id, target_id, candidate, bad) ==
    sfu_forward(M, user_id, "ice-candidate", target_id, candidate, bad)

\* 'offer', 'answer', 'ice-candidate'
SfuRelay(h, kind, target_id, payload, bad) ==
    /\ Receiving(h)
    /\ LET M1 == CASE kind = "offer" -> handle_sfu_offer(Machine, owner(h), target_id, payload, bad)
                   [] kind = "answer" -> handle_sfu_answer(Machine, owner(h), target_id, payload, bad)
                   [] kind = "ice-candidate" -> handle_sfu_ice_candidate(Machine, owner(h), target_id, payload, bad)
       IN  Commit(M1, ws, OpRec(kind, h, target_id, payload, None, None, M1))

\* ------------------------------------------------ the older call protocols
\* the body of the handlers that forward one frame to the user it names: the
\* write to the registered socket of the target, a write that raises
\* disconnects the target
forward_to(M, target_user_id, type, a, b, bad) ==
    IF target_user_id # None /\ target_user_id \in DOMAIN M.uc
    THEN LET h == M.uc[target_user_id]
         IN  IF h \in bad
             THEN disconnect([M EXCEPT !.failed = @ \cup {h}], target_user_id)
             ELSE [M EXCEPT !.sent = Append(@, Ev(h, target_user_id, type, a, b))]
    ELSE M

\* a loop over user_connections.items() that writes to every socket but that
\* of `skip`.  A write that raises disconnects its user inside the loop, which
\* deletes from the dict being iterated: the loop's next step raises RuntimeError.
RECURSIVE FanOut(_, _, _, _, _, _, _)
FanOut(M, todo, skip, type, a, b, bad) ==
    IF todo = << >> THEN [m |-> M, raised |-> FALSE]
    ELSE LET uid == Head(todo)
             h == M.uc[uid]
         IN  IF uid = skip THEN FanOut(M, Tail(todo), skip, type, a, b, bad)
             ELSE IF h \in bad
                  THEN [m |-> disconnect([M EXCEPT !.failed = @ \cup {h}], uid), raised |-> TRUE]
                  ELSE FanOut([M EXCEPT !.sent = Append(@, Ev(h, uid, type, a, b))],
                              Tail(todo), skip, type, a, b, bad)

\* the body the three webrtc_* handlers share: the frame names a user ('to'),
\* or it names a channel and a target participant and goes to every socket
webrtc_forward(M, user_id, type, to, multi, payload, order, bad) ==
    IF to # None
    THEN [m |-> forward_to(M, to, type, user_id, payload, bad), raised |-> FALSE]
    ELSE IF multi THEN FanOut(M, order, None, type, user_id, payload, bad)
    ELSE [m |-> M, raised |-> FALSE]

handle_webrtc_offer(M, user_id, to, multi, offer, order, bad) ==
    webrtc_forward(M, user_id, "webrtc_offer", to, multi, offer, order, bad)

handle_webrtc_answer(M, user_id, to, multi, answer, order, bad) ==
    webrtc_forward(M, user_id, "webrtc_answer", to, multi, answer, order, bad)

handle_webrtc_ice_candidate(M, user_id, to, multi, candidate, order, bad) ==
    webrtc_forward(M, user_id, "webrtc_ice_candidate", to, multi, candidate, order, bad)

handle_video_call_offer(M, user_id, target_user_id, offer, bad) ==
    forward_to(M, target_user_id, "video_call_offer", user_id, offer, bad)

handle_video_call_answer(M, user_id, target_user_id, answer, bad) ==
    forward_to(M, target_user_id, "video_call_answer", user_id, answer, bad)

handle_webrtc_join_room(M, user_id, channel_id, participant_id, order, bad) ==
    IF channel_id = None \/ participant_id = None THEN [m |-> M, raised |-> FALSE]
    ELSE FanOut(M, order, user_id, "webrtc_participant_joined", channel_id, participant_id, bad)

handle_webrtc_leave_room(M, user_id, channel_id, participant_id, order, bad) ==
    IF channel_id = None \/ participant_id = None THEN [m |-> M, raised |-> FALSE]
    ELSE FanOut(M, order, user_id, "webrtc_participant_left", channel_id, participant_id, bad)

\* a handler that returned r.m, or left r.m behind and raised
Finish(r, h, op, a1, a2, bad) ==
    IF r.raised
    THEN LET M1 == Raised(r.m, h, "Exception", bad)
         IN  Commit(Unwind(M1, h), Closed(h), OpRec(op, h, a1, a2, None, "Exception", M1))
    ELSE Commit(r.m, ws, OpRec(op, h, a1, a2, None, None, r.m))

\* 'webrtc_offer', 'webrtc_answer', 'webrtc_ice_candidate'
WebrtcSignal(h, kind, to, multi, payload, order, bad) ==
    /\ Receiving(h)
    /\ order \in Orders(DOMAIN user_connections)
    /\ LET r == CASE kind = "webrtc_offer" -> handle_webrtc_offer(Machine, owner(h), to, multi, payload, order, bad)
                  [] kind = "webrtc_answer" -> handle_webrtc_answer(Machine, owner(h), to, multi, payload, order, bad)
                  [] kind = "webrtc_ice_candidate" -> handle_webrtc_ice_candidate(Machine, owner(h), to, multi, payload, order, bad)
       IN  Finish(r, h, kind, to, payload, bad)

\* 'video_call_offer', 'video_call_answer'
VideoCall(h, kind, target_user_id, payload, bad) ==
    /\ Receiving(h)
    /\ LET M1 == CASE kind = "video_call_offer" -> handle_video_call_offer(Machine, owner(h), target_user_id, payload, bad)
                   [] kind = "video_call_answer" -> handle_video_call_answer(Machine, owner(h), target_user_id, payload, bad)
       IN  Commit(M1, ws, OpRec(kind, h, target_user_id, payload, None, None, M1))

\* 'webrtc_join_room'
WebrtcJoinRoom(h, channel_id, participant_id, order, bad) ==
    /\ Receiving(h)
    /\ order \in Orders(DOMAIN user_connections)
    /\ Finish(handle_webrtc_join_room(Machine, owner(h), channel_id, participant_id, order, bad),
              h, "webrtc_join_room", channel_id, participant_id, bad)

\* 'webrtc_leave_room'
WebrtcLeaveRoom(h, channel_id, participant_id, order, bad) ==
    /\ Receiving(h)
    /\ order \in Orders(DOMAIN user_connections)
    /\ Finish(handle_webrtc_leave_room(Machine, owner(h), channel_id, participant_id, order, bad),
              h, "webrtc_leave_room", channel_id, participant_id, bad)

\* a task created by disconnect() runs: send_to_user(to, user-left)
RunTask(bad) ==
    /\ tasks # << >>
    /\ LET t == Head(tasks)
           M1 == send_to_user([Machine EXCEPT !.tk = Tail(@)], t.to, "user-left", t.left, None, bad)
       IN  Commit(M1, ws, OpRec("task", NoHandle, t.to, t.left, None, None, M1))

\* --------------------------------------------------------------- reactions
\* the table takes at most one row for a (message, user, emoji)
RowAllowed(rows, row) == row \notin rows

\* db.add_reaction: the insert of one row; an insert that raises returns None
\* and stores nothing
db_add_reaction(rows, message_id, user_id, emoji, ok) ==
    IF ok /\ RowAllowed(rows, <<message_id, user_id, emoji>>)
    THEN rows \cup {<<message_id, user_id, emoji>>}
    ELSE rows

\* db.remove_reaction: the delete of the rows that match
db_remove_reaction(rows, message_id, user_id, emoji, ok) ==
    IF ok THEN rows \ {<<message_id, user_id, emoji>>} ELSE rows

\* db.get_reactions_for_message: the rows of the message; [] when the query raises
get_reactions_for_message(rows, message_id, ok) ==
    IF ok THEN {r \in rows : r[1] = message_id} ELSE {}

\* sum(1 for r in all_reactions if r['emoji'] == emoji)
emoji_count(all_reactions, emoji) == Cardinality({r \in all_reactions : r[3] = emoji})

\* add_reaction / remove_reaction up to the payload: the mutation, then the
\* re-fetch of the rows of the message, then the count of the rows of the emoji
toggle_store(M, user_id, action, message, mutOk, fetchOk) ==
    LET rows == IF action = "add"
                THEN db_add_reaction(M.rx, message.message_id, user_id, message.emoji, mutOk)
                ELSE db_remove_reaction(M.rx, message.message_id, user_id, message.emoji, mutOk)
        all_reactions == get_reactions_for_message(rows, message.message_id, fetchOk)
    IN  [m |-> [M EXCEPT !.rx = rows], count |-> emoji_count(all_reactions, message.emoji)]

reaction_update(user_id, action, message) ==
    [message_id |-> message.message_id, emoji |-> message.emoji, user_id |-> user_id, action |-> action]

\* add_reaction / remove_reaction from the payload on: to the channel the frame
\* names, else to the recipient the frame names and to the user, else to nobody
toggle_fanout(M, user_id, action, message, count, bad) ==
    LET payload == reaction_update(user_id, action, message)
    IN  IF message.channel_id # None
        THEN broadcast_to_channel(M, message.channel_id, "reaction_update", payload, count, bad)
        ELSE IF message.recipient_id # None
             THEN send_to_user(send_to_user(M, message.recipient_id, "reaction_update", payload, count, bad),
                               user_id, "reaction_update", payload, count, bad)
        ELSE M

Missing(message) == message.message_id = None \/ message.emoji = None

add_reaction(M, user_id, message, mutOk, fetchOk, bad) ==
    IF Missing(message) THEN M
    ELSE LET r == toggle_store(M, user_id, "add", message, mutOk, fetchOk)
         IN  toggle_fanout(r.m, user_id, "add", message, r.count, bad)

remove_reaction(M, user_id, message, mutOk, fetchOk, bad) ==
    IF Missing(message) THEN M
    ELSE LET r == toggle_store(M, user_id, "remove", message, mutOk, fetchOk)
         IN  toggle_fanout(r.m, user_id, "remove", message, r.count, bad)

ReactionFrame(message_id, emoji, channel_id, recipient_id) ==
    [message_id |-> message_id, emoji |-> emoji, channel_id |-> channel_id, recipient_id |-> recipient_id]

\* what a step of a reaction handler did with the table: the frame, what the
\* two calls returned, the count it computed, and how far the step went
ReactionDb(message, mutOk, fetchOk, count, phase) ==
    [message |-> message, mutOk |-> mutOk, fetchOk |-> fetchOk, count |-> count, phase |-> phase]

\* the user the first send_text of the fan-out writes to, None when the
\* fan-out writes nothing
FirstTarget(M, user_id, message) ==
    IF message.channel_id # None
    THEN LET targets == InOrder(ChannelTargets(M, message.channel_id))
         IN  IF targets = << >> THEN None ELSE Head(targets)
    ELSE IF message.recipient_id = None THEN None
    ELSE IF message.recipient_id \in DOMAIN M.uc THEN message.recipient_id
    ELSE IF user_id \in DOMAIN M.uc THEN user_id
    ELSE None

\* 'add_reaction' / 'remove_reaction'.  suspend: the first send_text of the
\* fan-out gives the event loop to other tasks before it writes.  The
\* suspended handler keeps the count it computed and, in a broadcast, the
\* user it is writing to (to) and the iterator over user_channels.items(),
\* which holds the size the dict had when the loop began (used).  audience is
\* kept for the properties only: the users the broadcast would write to if it
\* ran at once.
Reaction(h, action, message, mutOk, fetchOk, suspend, bad) ==
    /\ Receiving(h)
    /\ LET user_id == owner(h)
           op == IF action = "add" THEN "add_reaction" ELSE "remove_reaction"
           r == toggle_store(Machine, user_id, action, message, mutOk, fetchOk)
       IN  IF Missing(message)
           THEN Commit(Machine, ws,
                       OpRec(op, h, message.channel_id, message.recipient_id,
                             ReactionDb(message, mutOk, fetchOk, 0, "ignored"), None, Machine))
           ELSE IF suspend /\ FirstTarget(r.m, user_id, message) # None
           THEN LET M1 == [r.m EXCEPT !.rn = Put(@, h, [at |-> "send_text", action |-> action,
                                                          message |-> message, count |-> r.count,
                                                          to |-> IF message.channel_id = None THEN None
                                                                 ELSE FirstTarget(r.m, user_id, message),
                                                          used |-> IF message.channel_id = None THEN 0
                                                                   ELSE Cardinality(DOMAIN r.m.ch),
                                                          audience |-> IF message.channel_id = None THEN {}
                                                                       ELSE ChannelTargets(r.m, message.channel_id)])]
                IN  Commit(M1, ws,
                           OpRec(op, h, message.channel_id, message.recipient_id,
                                 ReactionDb(message, mutOk, fetchOk, r.count, "stored"), None, M1))
           ELSE LET M1 == IF action = "add"
                          THEN add_reaction(Machine, user_id, message, mutOk, fetchOk, bad)
                          ELSE remove_reaction(Machine, user_id, message, mutOk, fetchOk, bad)
                IN  Commit(M1, ws,
                           OpRec(op, h, message.channel_id, message.recipient_id,
                                 ReactionDb(message, mutOk, fetchOk, r.count, "whole"), None, M1))

\* a loop over user_channels.items() that was suspended in its body raises
\* RuntimeError at its next step when the dict has another size than when the
\* loop began
\* (variant: the loop runs over a copy of the items)
SizeChanged_never(k) == FALSE

SizeChanged(k) == k.message.channel_id # None /\ Cardinality(DOMAIN user_channels) # k.used

\* the suspended fan-out of a reaction handler goes on.  When the loop of the
\* broadcast raises, the send it was suspended in is the only one made, the
\* users whose send failed are not disconnected, and the exception leaves
\* add_reaction / remove_reaction and ends the receive loop of the socket.
ReactionResume(h, bad) ==
    /\ h \in DOMAIN running
    /\ running[h].at = "send_text"
    /\ LET k == running[h]
           op == IF k.action = "add" THEN "add_reaction" ELSE "remove_reaction"
           db == ReactionDb(k.message, TRUE, TRUE, k.count, "resumed")
           M0 == [Machine EXCEPT !.rn = Drop(@, h)]
       IN  IF SizeChanged(k)
           THEN LET M1 == IF k.to \notin DOMAIN M0.uc THEN M0
                          ELSE IF M0.uc[k.to] \in bad THEN [M0 EXCEPT !.failed = {M0.uc[k.to]}]
                          ELSE SendEach(M0, <<k.to>>, "reaction_update",
                                        reaction_update(owner(h), k.action, k.message), k.count)
                    M2 == Raised(M1, h, "Exception", {})
                IN  Commit(Unwind(M2, h), Closed(h),
                           OpRec(op, h, k.message.channel_id, k.message.recipient_id, db, "Exception", M2))
           ELSE LET M1 == toggle_fanout(M0, owner(h), k.action, k.message, k.count, bad)
                IN  Commit(M1, ws,
                           OpRec(op, h, k.message.channel_id, k.message.recipient_id, db, None, M1))

\* POST / DELETE /message/{message_id}/reactions: the table changes, no socket hears of it
RestReaction(user_id, action, message_id, emoji, ok) ==
    LET rows == IF action = "add"
                THEN db_add_reaction(message_reactions, message_id, user_id, emoji, ok)
                ELSE db_remove_reaction(message_reactions, message_id, user_id, emoji, ok)
        M1 == [Machine EXCEPT !.rx = rows]
    IN  Commit(M1, ws,
               [OpRec("rest_reaction", NoHandle, None, None,
                      ReactionDb(ReactionFrame(message_id, emoji, None, None), ok, TRUE, 0, action),
                      None, M1) EXCEPT !.user = user_id])

\* 'send_message' up to its call of db.create_message, which is a call of the
\* synchronous client: the thread of the event loop is inside it
StoreCall(h, channel_id, recipient_id) ==
    /\ Receiving(h)
    /\ ~(channel_id # None /\ get_channel_uuid(channel_id) = None)
    /\ LET M1 == [Machine EXCEPT !.rn = Put(@, h, [at |-> "create_message", action |-> "send_message",
                                                    message |-> Frame(channel_id, recipient_id), count |-> 0])]
       IN  Commit(M1, ws, OpRec("create_message", h, channel_id, recipient_id, None, None, M1))

\* db.create_message has its answer: 'send_message' goes on to its end
StoreReturn(h, stored, senderFound, bad) ==
    /\ h \in DOMAIN running
    /\ running[h].at = "create_message"
    /\ LET frame == running[h].message
           M1 == send_message([Machine EXCEPT !.rn = Drop(@, h)], owner(h), frame, stored, senderFound, bad)
       IN  Commit(M1, ws,
                  OpRec("send_message", h, frame.channel_id, frame.recipient_id,
                        DbOutcome(frame, stored, senderFound), None, M1))

Registered == {user_connections[u] : u \in DOMAIN user_connections}

\* the sockets a handler writes to when no send fails
WrittenTo(M) == {M.sent[i].ws : i \in 1..Len(M.sent)}

\* what create_message and get_user_by_id return: <<stored, senderFound>>
DbOutcomes == {<<TRUE, TRUE>>, <<FALSE, TRUE>>, <<TRUE, FALSE>>}

OpenStep(US) == Idle /\ \E u \in US, ackOk \in BOOLEAN : Open(u, ackOk)

ClientDisconnectStep == Idle /\ \E h \in Handles, bad \in SUBSET Registered : ClientDisconnect(h, bad)

BadFrameStep == Idle /\ \E h \in Handles : BadFrame(h)

PingStep == Idle /\ \E h \in Handles, pongOk \in BOOLEAN : Ping(h, pongOk)

JoinChannelStep(CH) ==
    Idle /\ \E h \in Handles, c \in CH, bad \in SUBSET Registered, exc \in ExcKinds :
        /\ bad \subseteq {user_connections[u] : u \in DOMAIN user_connections \cap {owner(h)}}
        /\ (bad = {} => exc = "Exception")
        /\ JoinChannel(h, c, bad, exc)

LeaveChannelStep(CH) ==
    Idle /\ \E h \in Handles, c \in CH, bad \in SUBSET Registered, exc \in ExcKinds :
        /\ bad \subseteq {user_connections[u] : u \in DOMAIN user_connections \cap {owner(h)}}
        /\ (bad = {} => exc = "Exception")
        /\ LeaveChannel(h, c, bad, exc)

SendMessageStep(CH) ==
    Idle /\ \E h \in Handles, c \in CH \cup {None}, r \in Users \cup {None}, db \in DbOutcomes :
        /\ Receiving(h)
        /\ \E bad \in SUBSET WrittenTo(send_message(Machine, owner(h), Frame(c, r), db[1], db[2], {})) :
              SendMessage(h, c, r, db[1], db[2], bad)

SfuJoinRoomStep(CR) ==
    Idle /\ \E h \in Handles, room \in CR \cup {None}, name \in {"name", None} :
        /\ Receiving(h)
        /\ \E order \in Orders(ParticipantsOf(video_rooms, room) \ {owner(h)}), bad \in SUBSET Registered :
              SfuJoinRoom(h, room, name, order, bad)

SfuRelayStep ==
    Idle /\ \E h \in Handles, kind \in Kinds, target \in Users \cup {None}, payload \in Payloads \cup {None} :
        /\ Receiving(h)
        /\ \E bad \in SUBSET WrittenTo(sfu_forward(Machine, owner(h), kind, target, payload, {})) :
              SfuRelay(h, kind, target, payload, bad)

RunTaskStep == Idle /\ \E bad \in SUBSET Registered : RunTask(bad)

WebrtcSignalStep ==
    Idle /\ \E h \in Handles, kind \in WebrtcKinds, to \in Users \cup {None}, multi \in BOOLEAN,
               payload \in Payloads :
        /\ Receiving(h)
        /\ \E order \in Orders(DOMAIN user_connections), bad \in SUBSET Registered :
              WebrtcSignal(h, kind, to, multi, payload, order, bad)

VideoCallStep ==
    Idle /\ \E h \in Handles, kind \in VideoCallKinds, target \in Users \cup {None}, payload \in Payloads :
        /\ Receiving(h)
        /\ \E bad \in SUBSET WrittenTo(forward_to(Machine, target, kind, owner(h), payload, {})) :
              VideoCall(h, kind, target, payload, bad)

WebrtcJoinRoomStep(CR) ==
    Idle /\ \E h \in Handles, room \in CR \cup {None} :
        /\ Receiving(h)
        /\ \E order \in Orders(DOMAIN user_connections), bad \in SUBSET Registered :
              WebrtcJoinRoom(h, room, owner(h), order, bad)

WebrtcLeaveRoomStep(CR) ==
    Idle /\ \E h \in Handles, room \in CR \cup {None} :
        /\ Receiving(h)
        /\ \E order \in Orders(DOMAIN user_connections), bad \in SUBSET Registered :
              WebrtcLeaveRoom(h, room, owner(h), order, bad)

\* what the two calls of a reaction handler return: <<mutOk, fetchOk>>
ReactionOutcomes == {<<TRUE, TRUE>>, <<FALSE, TRUE>>, <<TRUE, FALSE>>}

\* the frames of the reaction handlers: complete ones, and two that lack a field
ReactionFrames(CH, RC, ES) ==
    {ReactionFrame(MessageId, e, c, None) : e \in ES, c \in CH}
        \cup {ReactionFrame(MessageId, e, None, r) : e \in ES, r \in RC \cup {None}}
        \cup {ReactionFrame(None, "heart", None, None), ReactionFrame(MessageId, None, None, None)}

ReactionStep(CH, RC, ES, SUSP) ==
    Idle /\ \E h \in Handles, action \in {"add", "remove"}, message \in ReactionFrames(CH, RC, ES),
               db \in ReactionOutcomes, suspend \in SUSP :
        /\ Receiving(h)
        /\ (Missing(message) => db = <<TRUE, TRUE>> /\ action = "add")
        /\ IF suspend \/ Missing(message)
           THEN Reaction(h, action, message, db[1], db[2], ~Missing(message), {})
           ELSE \E bad \in SUBSET WrittenTo(toggle_fanout(Machine, owner(h), action, message, 0, {})) :
                   Reaction(h, action, message, db[1], db[2], FALSE, bad)

ReactionResumeStep ==
    Idle /\ \E h \in DOMAIN running :
        /\ running[h].at = "send_text"
        /\ \E bad \in SUBSET WrittenTo(toggle_fanout(Machine, owner(h), running[h].action,
                                                     running[h].message, 0, {})) :
              ReactionResume(h, bad)

\* a complete reaction frame for the channel, from a socket of a user of US,
\* whose two calls of the persistence client return
ChannelReactionStep(US) ==
    Idle /\ \E h \in Handles, action \in {"add", "remove"}, suspend \in BOOLEAN :
        /\ owner(h) \in US
        /\ Receiving(h)
        /\ Reaction(h, action, ReactionFrame(MessageId, "heart", GeneralUuid, None), TRUE, TRUE, suspend, {})

RestReactionStep(US, ES) ==
    Idle /\ \E u \in US, action \in {"add", "remove"}, e \in ES, ok \in BOOLEAN :
        RestReaction(u, action, MessageId, e, ok)

StoreCallStep(CH, RC) ==
    Idle /\ \E h \in Handles, c \in CH \cup {None}, r \in RC \cup {None} : StoreCall(h, c, r)

StoreReturnStep ==
    \E h \in DOMAIN running, db \in DbOutcomes :
        /\ running[h].at = "create_message"
        /\ \E bad \in SUBSET WrittenTo(send_message(Machine, owner(h), running[h].message, db[1], db[2], {})) :
              StoreReturn(h, db[1], db[2], bad)

\* the handler has returned: what it did is observed once and then dropped
Await ==
    /\ ~Idle
    /\ ~Blocked
    /\ lastOp' = IdleRec
    /\ sent' = << >>
    /\ UNCHANGED <<ws, user_connections, connected_users, user_channels, video_rooms, tasks,
                   message_reactions, running>>

\* every handler, two identities, one chat room addressed by its id, one call room
Next ==
    \/ OpenStep(Pair)
    \/ ClientDisconnectStep
    \/ BadFrameStep
    \/ PingStep
    \/ JoinChannelStep({GeneralUuid})
    \/ LeaveChannelStep({GeneralUuid})
    \/ SendMessageStep({GeneralUuid})
    \/ SfuJoinRoomStep({"call-A"})
    \/ SfuRelayStep
    \/ RunTaskStep
    \/ Await

Spec == Init /\ [][Next]_vars

\* the chat handlers, the room addressed by name, by id, or by a name nobody knows
NextChat ==
    \/ OpenStep(Users)
    \/ ClientDisconnectStep
    \/ JoinChannelStep(ChannelIds)
    \/ LeaveChannelStep(ChannelIds)
    \/ SendMessageStep(ChannelIds \cup {GhostName})
    \/ Await

SpecChat == Init /\ [][NextChat]_vars

\* the call room handlers, two identities, two call rooms
NextCall ==
    \/ OpenStep(Pair)
    \/ ClientDisconnectStep
    \/ SfuJoinRoomStep(CallRooms)
    \/ SfuRelayStep
    \/ RunTaskStep
    \/ Await

SpecCall == Init /\ [][NextCall]_vars

\* the call handlers of every protocol, two identities, one call room
NextLegacy ==
    \/ OpenStep(Pair)
    \/ ClientDisconnectStep
    \/ SfuJoinRoomStep({"call-A"})
    \/ SfuRelayStep
    \/ WebrtcSignalStep
    \/ VideoCallStep
    \/ WebrtcJoinRoomStep({"call-A"})
    \/ WebrtcLeaveRoomStep({"call-A"})
    \/ RunTaskStep
    \/ Await

SpecLegacy == Init /\ [][NextLegacy]_vars

\* joining one call room and closing connections.  The event loop resumes a
\* handler that has returned its result (Await), and it runs a created task
\* within one pass over its FIFO ready queue, whatever the other sockets do.
NextLeave ==
    \/ OpenStep(Pair)
    \/ ClientDisconnectStep
    \/ SfuJoinRoomStep({"call-A"})
    \/ RunTaskStep
    \/ Await

FairLeave == Init /\ [][NextLeave]_vars /\ WF_vars(Await) /\ SF_vars(RunTaskStep)

\* the reaction handlers run in one step each, the room addressed by name or
\* by id; the REST endpoints change the table too
NextReact ==
    \/ OpenStep(Pair)
    \/ JoinChannelStep(ChannelIds)
    \/ ReactionStep(ChannelIds, Pair, Emojis, {FALSE})
    \/ RestReactionStep(Pair, Emojis)
    \/ Await

SpecReact == Init /\ [][NextReact]_vars

\* the event loop: a reaction handler may be suspended at its first send, a
\* send_message handler is inside its call of db.create_message
LoopSteps ==
    \/ OpenStep(Pair)
    \/ ReactionStep({}, {"u1"}, {"heart"}, BOOLEAN)
    \/ ReactionResumeStep
    \/ RestReactionStep({"u2"}, {"heart"})
    \/ StoreCallStep({}, {"u1"})
    \/ Await

NextLoop == LoopSteps \/ StoreReturnStep

\* the fan-out of a reaction in a channel, suspended at its first send while
\* other sockets open, join and react
NextFanout ==
    \/ OpenStep(Users)
    \/ JoinChannelStep({GeneralUuid})
    \/ ChannelReactionStep(Pair)
    \/ ReactionResumeStep
    \/ Await

SpecFanout == Init /\ [][NextFanout]_vars

SpecLoop == Init /\ [][NextLoop]_vars

\* ------------------------------------------------------------ observations
\* what the claims below read off the step that just ran
ChatTypes == {"new_channel_message", "new_direct_message"}

\* the positions of `sent` that hold an event of one of the types, addressed to u
EventsTo(u, types) == {i \in 1..Len(sent) : sent[i].to = u /\ sent[i].type \in types}

\* the identities the step ran disconnect() for
ClosedUsers == {lastOp.closed[i] : i \in 1..Len(lastOp.closed)}

OfflineCount(u) == Cardinality({i \in 1..Len(lastOp.offline) : lastOp.offline[i] = u})

InARoom(rooms, u) == \E i \in 1..Len(rooms) : u \in rooms[i].parts

\* u is in no map and in no call room
Gone(u) ==
    /\ u \notin DOMAIN user_connections
    /\ u \notin DOMAIN connected_users
    /\ u \notin DOMAIN user_channels
    /\ ~InARoom(video_rooms, u)

\* the members, when the step began, of the room that c names: registered, and
\* joined under the id of the room or under its name
RoomMembers(c) ==
    {u \in DOMAIN lastOp.pre.ch \cap DOMAIN lastOp.pre.uc :
        \E k \in Channels(lastOp.pre.ch[u]) : get_channel_uuid(k) = get_channel_uuid(c)}

\* the members, when the step began, of the room the broadcast was called for
BroadcastMembers(c) ==
    {u \in DOMAIN lastOp.pre.ch \cap DOMAIN lastOp.pre.uc : get_channel_uuid(c) \in Channels(lastOp.pre.ch[u])}

StoredOutcomes == {"stored", "sender_not_found"}

\* ------------------------------------------------------------------ claims
\* C1: when a chat message that targets a room has been stored, every member
\* of that room at dispatch time (joined and registered, the sender included)
\* gets exactly one chat-message event, and the event carries the id and the
\* timestamp the store assigned.  Stated for the steps in which the sender's
\* record was found and no send raised.
C1_RoomMessageReachesMembers ==
    (/\ lastOp.op = "send_message"
     /\ lastOp.a1 # None /\ lastOp.a2 = None
     /\ lastOp.db = "stored"
     /\ lastOp.failed = {})
    => \A u \in RoomMembers(lastOp.a1) :
          /\ Cardinality(EventsTo(u, ChatTypes)) = 1
          /\ \A i \in EventsTo(u, ChatTypes) :
                /\ sent[i].ws = lastOp.pre.uc[u]
                /\ sent[i].a = ServerId
                /\ sent[i].b = ServerTs

\* C2: when the store fails, no chat-message event is written to anyone.
C2_NoStoreNoChatMessage ==
    (lastOp.op = "send_message" /\ lastOp.db = "store_failed")
    => \A i \in 1..Len(sent) : sent[i].type \notin ChatTypes

\* a store failure for a room message while the room had a member to write to
C2_Witness ==
    /\ lastOp.op = "send_message"
    /\ lastOp.db = "store_failed"
    /\ lastOp.a1 # None
    /\ BroadcastMembers(lastOp.a1) # {}

\* C3: a send-message frame with both a room and a recipient, or with neither,
\* is answered with an error event to its originator, nothing is stored and no
\* chat-message event is written.  Stated for a registered originator.
C3_InvalidTargetRejected ==
    (/\ lastOp.op = "send_message"
     /\ lastOp.user \in DOMAIN lastOp.pre.uc
     /\ (lastOp.a1 = None) = (lastOp.a2 = None))
    => /\ lastOp.db \notin StoredOutcomes
       /\ \A i \in 1..Len(sent) : sent[i].type \notin ChatTypes
       /\ \E i \in 1..Len(sent) : sent[i].type = "error" /\ sent[i].ws = lastOp.ws

\* C4: when the store fails, the sender, and nobody else, gets an error event.
\* Stated for a registered sender.
C4_StoreFailureReported ==
    (/\ lastOp.op = "send_message"
     /\ lastOp.user \in DOMAIN lastOp.pre.uc
     /\ lastOp.db = "store_failed")
    => /\ \E i \in 1..Len(sent) : sent[i].type = "error" /\ sent[i].to = lastOp.user
       /\ \A i \in 1..Len(sent) : sent[i].type = "error" => sent[i].to = lastOp.user

\* C5: after disconnect() has run for an identity, whatever made it run, the
\* identity is in neither registry, has no membership entry, and is a
\* participant of no call room.
C5_ClosedIdentityGone == \A x \in ClosedUsers : Gone(x)

\* a registered identity with a joined room and a seat in a call room is closed
C5_Witness ==
    \E x \in ClosedUsers :
        /\ x \in DOMAIN lastOp.pre.uc
        /\ x \in DOMAIN lastOp.pre.ch /\ lastOp.pre.ch[x] # << >>
        /\ InARoom(lastOp.pre.vr, x)

\* C6: every close of a registered identity, whatever its cause, comes with
\* exactly one broadcast of that identity's offline status.
C6_EveryCloseAnnouncedOnce ==
    \A x \in ClosedUsers : x \in DOMAIN lastOp.pre.uc => OfflineCount(x) = 1

\* the newest socket of u while the step ran
NewestSocket(u) ==
    IF lastOp.op = "connect" /\ lastOp.user = u THEN lastOp.ws
    ELSE <<u, Cardinality({k \in 1..(MaxStale + 1) : lastOp.pre.ws[<<u, k>>] = "open"})>>

\* C7: an identity has at most one registered socket, the one of its most
\* recent handshake; the events sent to the identity are written to that
\* socket and to no older one (a pong answers on the socket of its ping).
C7_LatestOpenRegistered ==
    /\ connected_users = user_connections
    /\ \A u \in DOMAIN user_connections :
          /\ ws[user_connections[u]] = "open"
          /\ user_connections[u] = <<u, OpenCount(u)>>
    /\ (lastOp.op = "connect" /\ lastOp.failed = {}) => user_connections[lastOp.user] = lastOp.ws
    /\ \A i \in 1..Len(sent) : sent[i].type # "pong" => sent[i].ws = NewestSocket(sent[i].to)

\* a chat message is written to the second socket of an identity whose first
\* socket is still open
C7_Witness ==
    \E i \in 1..Len(sent) :
        /\ sent[i].type \in ChatTypes
        /\ sent[i].ws = <<sent[i].to, 2>>
        /\ lastOp.pre.ws[<<sent[i].to, 1>>] = "open"

\* the steps that hand events to send_to_user and do nothing else with sockets
DeliverStep == lastOp.op \in Kinds \cup {"task"} \/ (lastOp.op = "send_message" /\ lastOp.a1 = None)

\* C8: send_to_user to a socket that cannot be written does not raise and
\* leaves the identity as disconnect() leaves it; send_to_user to an identity
\* that is not registered does nothing at all.
C8_DeliverFailureIsClose ==
    DeliverStep =>
        /\ lastOp.exc = None
        /\ \A x \in DOMAIN lastOp.pre.uc :
              lastOp.pre.uc[x] \in lastOp.failed => x \in ClosedUsers /\ Gone(x)
        /\ (lastOp.op \in Kinds \cup {"task"} /\ lastOp.a1 \notin DOMAIN lastOp.pre.uc) =>
              /\ sent = << >>
              /\ lastOp.failed = {} /\ lastOp.closed = << >>
              /\ user_connections = lastOp.pre.uc
              /\ user_channels = lastOp.pre.ch
              /\ video_rooms = lastOp.pre.vr

\* a relayed signal whose write to the target raised, the target having a
\* joined room and a seat in a call room
C8_Witness ==
    /\ lastOp.op \in Kinds
    /\ lastOp.a1 \in DOMAIN lastOp.pre.uc
    /\ lastOp.pre.uc[lastOp.a1] \in lastOp.failed
    /\ lastOp.pre.ch[lastOp.a1] # << >>

C10_SignalReachesTarget ==
    (/\ lastOp.op \in Kinds
     /\ lastOp.user \in DOMAIN lastOp.pre.uc
     /\ lastOp.a1 \in DOMAIN lastOp.pre.uc
     /\ lastOp.a1 # lastOp.user
     /\ lastOp.a2 # None
     /\ lastOp.failed = {}
     /\ \E i \in 1..Len(lastOp.pre.vr) : {lastOp.user, lastOp.a1} \subseteq lastOp.pre.vr[i].parts)
    => sent = <<Ev(lastOp.pre.uc[lastOp.a1], lastOp.a1, lastOp.op, lastOp.user, lastOp.a2)>>

\* the sender of the step and u are participants of one call room as the step began
SharesRoom(u) ==
    \E i \in 1..Len(lastOp.pre.vr) : {lastOp.user, u} \subseteq lastOp.pre.vr[i].parts

\* C11: a relay (offer, answer, candidate) whose target is not in the sender's
\* call room writes nothing to anyone, changes nothing and queues nothing; a
\* signaling event is written only by the step that handles its frame, so a
\* target that joins later never gets the dropped one.
C11_AbsentTargetDropped ==
    /\ (/\ lastOp.op \in Kinds
        /\ InARoom(lastOp.pre.vr, lastOp.user)
        /\ lastOp.a1 \in Users
        /\ ~SharesRoom(lastOp.a1))
       => /\ sent = << >>
          /\ tasks = lastOp.pre.tk
          /\ video_rooms = lastOp.pre.vr
          /\ lastOp.failed = {} /\ lastOp.closed = << >>
    /\ \A i \in 1..Len(sent) : sent[i].type \in Kinds => lastOp.op = sent[i].type
    /\ \A i \in 1..Len(tasks) : tasks[i].left \in Users

\* a relay with a payload from a participant to a registered user that is in
\* none of the sender's rooms
C11_Witness ==
    /\ lastOp.op \in Kinds
    /\ lastOp.a2 # None
    /\ InARoom(lastOp.pre.vr, lastOp.user)
    /\ lastOp.a1 \in DOMAIN lastOp.pre.uc
    /\ lastOp.a1 # lastOp.user
    /\ ~SharesRoom(lastOp.a1)

SignalTypes == Kinds \cup WebrtcKinds \cup VideoCallKinds

\* C12: a signaling event (offer, answer, candidate, of any frame type the
\* dispatcher accepts) is written to a user only if the sender and that user
\* are participants of one call room when the frame is relayed.
C12_SignalOnlyWithinRoom ==
    \A i \in 1..Len(sent) : sent[i].type \in SignalTypes => SharesRoom(sent[i].to)

JoinOps == {"join-room", "webrtc_join_room"}
JoinedTypes == {"user-joined", "webrtc_participant_joined"}

\* C13: a call-join to room r creates r if need be and adds the joiner to it;
\* the notification of the join goes to every other participant of r, to no
\* user that is not a participant of r, and not to the joiner.  Stated for a
\* registered joiner and a step in which no send raised.
C13_JoinNotifiesRoomOnly ==
    (/\ lastOp.op \in JoinOps
     /\ lastOp.a1 # None /\ lastOp.a2 # None
     /\ lastOp.user \in DOMAIN lastOp.pre.uc
     /\ lastOp.failed = {})
    => /\ lastOp.user \in ParticipantsOf(video_rooms, lastOp.a1)
       /\ \A i \in 1..Len(sent) :
             sent[i].type \in JoinedTypes =>
                /\ sent[i].to # lastOp.user
                /\ sent[i].to \in ParticipantsOf(lastOp.pre.vr, lastOp.a1)
       /\ \A q \in (ParticipantsOf(lastOp.pre.vr, lastOp.a1) \ {lastOp.user}) \cap DOMAIN lastOp.pre.uc :
             Cardinality(EventsTo(q, JoinedTypes)) = 1

LeftTypes == {"user-left", "webrtc_participant_left"}

\* C14: an explicit call-leave of a participant whose socket stays open
\* removes it from the call room, notifies the participants that remain, and
\* deletes the room when nobody remains.  Stated for a step in which no send
\* raised.
C14_LeaveRemovesParticipant ==
    (/\ lastOp.op = "webrtc_leave_room"
     /\ lastOp.a1 # None /\ lastOp.a2 # None
     /\ lastOp.user \in ParticipantsOf(lastOp.pre.vr, lastOp.a1)
     /\ lastOp.failed = {})
    => /\ lastOp.user \notin ParticipantsOf(video_rooms, lastOp.a1)
       /\ (ParticipantsOf(lastOp.pre.vr, lastOp.a1) = {lastOp.user} => lastOp.a1 \notin RoomIds(video_rooms))
       /\ \A q \in (ParticipantsOf(lastOp.pre.vr, lastOp.a1) \ {lastOp.user}) \cap DOMAIN lastOp.pre.uc :
             Cardinality(EventsTo(q, LeftTypes)) = 1

\* C15: every call room that exists has at least one participant (and one
\* entry): no step ends with a room that was created without its first
\* participant or that outlived its last one.
C15_NoEmptyRoom ==
    /\ \A i \in 1..Len(video_rooms) : video_rooms[i].parts # {}
    /\ \A i, j \in 1..Len(video_rooms) : video_rooms[i].id = video_rooms[j].id => i = j

\* the last participant of a room is disconnected while another room goes on
C15_Witness ==
    \E i \in 1..Len(lastOp.pre.vr) :
        /\ lastOp.pre.vr[i].parts \subseteq ClosedUsers
        /\ lastOp.pre.vr[i].id \notin RoomIds(video_rooms)
        /\ video_rooms # << >>

\* the tasks the step appended to the queue
NewTasks ==
    LET base == IF lastOp.op = "task" THEN Len(lastOp.pre.tk) - 1 ELSE Len(lastOp.pre.tk)
    IN  SubSeq(tasks, base + 1, Len(tasks))

\* the rooms, as the step began, in which x and q were both participants
RoomsOfBoth(x, q) == {i \in 1..Len(lastOp.pre.vr) : {x, q} \subseteq lastOp.pre.vr[i].parts}

\* what one disconnect(x) in a step does to the call rooms and the task queue
CloseCascades ==
    (Len(lastOp.closed) = 1 /\ lastOp.op # "join-room") =>
        LET x == lastOp.closed[1]
        IN  /\ \A q \in Users \ {x} :
                  Cardinality({k \in 1..Len(NewTasks) : NewTasks[k] = [to |-> q, left |-> x]})
                      = Cardinality(RoomsOfBoth(x, q))
            /\ \A k \in 1..Len(NewTasks) : NewTasks[k].left = x
            /\ \A i \in 1..Len(lastOp.pre.vr) :
                  LET room == lastOp.pre.vr[i]
                  IN  IF room.parts = {x} THEN room.id \notin RoomIds(video_rooms)
                      ELSE ParticipantsOf(video_rooms, room.id) = room.parts \ {x}

\* a task that runs writes its one notification to the registered socket of its target
TaskNotifies ==
    (lastOp.op = "task" /\ lastOp.a1 \in DOMAIN lastOp.pre.uc /\ lastOp.failed = {}) =>
        sent = <<Ev(lastOp.pre.uc[lastOp.a1], lastOp.a1, "user-left", lastOp.a2, None)>>

\* C16: when a connection closes, every participant that remains in a call
\* room of the closed identity is sent, in the end, one participant-left
\* notification per such room naming the departed (provided it is still
\* registered then), and the rooms left empty are deleted.
C16_CloseCascadesToRooms ==
    /\ [](CloseCascades /\ TaskNotifies)
    /\ \A q \in Pair, x \in Pair :
          (\E k \in 1..Len(tasks) : tasks[k] = [to |-> q, left |-> x])
              ~> (lastOp.op = "task" /\ lastOp.a1 = q /\ lastOp.a2 = x)

\* the notification of a departure is written to a participant that remained
C16_Witness ==
    /\ lastOp.op = "task"
    /\ \E i \in 1..Len(sent) : sent[i].type = "user-left" /\ sent[i].to = lastOp.a1 /\ sent[i].a = lastOp.a2
    /\ InARoom(video_rooms, lastOp.a1)

\* a chat-message event with the stored id and timestamp was written to u
GotStored(u) ==
    \E i \in EventsTo(u, ChatTypes) : sent[i].a = ServerId /\ sent[i].b = ServerTs

\* C17: when a direct message has been stored, the sender gets a chat-message
\* event with the stored record, whether or not the recipient is connected,
\* and so does the recipient if it is connected.  Stated for a registered
\* sender and a step in which no send raised.
C17_DirectMessageReachesBoth ==
    (/\ lastOp.op = "send_message"
     /\ lastOp.a1 = None /\ lastOp.a2 \in Users
     /\ lastOp.db \in StoredOutcomes
     /\ lastOp.user \in DOMAIN lastOp.pre.uc
     /\ lastOp.failed = {})
    => /\ GotStored(lastOp.user)
       /\ lastOp.a2 \in DOMAIN lastOp.pre.uc => GotStored(lastOp.a2)

\* C18: a direct message to a recipient that is not registered writes nothing
\* for the recipient, produces no error and no exception, and queues nothing;
\* a later open of the recipient writes the acknowledgement and no chat-message.
C18_OfflineRecipientSkipped ==
    /\ (/\ lastOp.op = "send_message"
        /\ lastOp.a1 = None /\ lastOp.a2 \in Users
        /\ lastOp.a2 \notin DOMAIN lastOp.pre.uc)
       => /\ \A i \in 1..Len(sent) : sent[i].to # lastOp.a2 /\ sent[i].type # "error"
          /\ lastOp.exc = None
          /\ tasks = lastOp.pre.tk
          /\ lastOp.a2 \notin DOMAIN user_connections
    /\ lastOp.op = "connect" => \A i \in 1..Len(sent) : sent[i].type \notin ChatTypes

\* a stored direct message to an absent recipient, echoed to its sender
C18_Witness ==
    /\ lastOp.op = "send_message"
    /\ lastOp.a1 = None /\ lastOp.a2 \in Users
    /\ lastOp.a2 \notin DOMAIN lastOp.pre.uc
    /\ lastOp.db = "stored"
    /\ GotStored(lastOp.user)

\* a room message was stored and fanned out, and no send raised
RoomFanOut ==
    /\ lastOp.op = "send_message"
    /\ lastOp.a1 # None
    /\ lastOp.db = "stored"
    /\ lastOp.failed = {}

C20_SameIdentifierReaches ==
    (RoomFanOut /\ lastOp.a2 = None)
    => \A u \in (DOMAIN lastOp.pre.ch \cap DOMAIN lastOp.pre.uc) \ {lastOp.user} :
          lastOp.a1 \in Channels(lastOp.pre.ch[u]) => GotStored(u)

\* the steps of the handlers of 'add_reaction' and 'remove_reaction'
ReactionOps == {"add_reaction", "remove_reaction"}

\* the rows of the table for the emoji of the frame of the step
StoredCount(rows) ==
    emoji_count(get_reactions_for_message(rows, lastOp.db.message.message_id, TRUE),
                lastOp.db.message.emoji)

\* the counts carried by the reaction_update events of the step
DeltaCounts == {sent[i].b : i \in {j \in 1..Len(sent) : sent[j].type = "reaction_update"}}

\* C21: removing a reaction that is not stored leaves the stored rows as they
\* were, and the count of the reaction_update it sends out is the number of
\* stored rows of that emoji for that message: never negative, and the same
\* for every repetition of the remove.
C21_RemoveAbsentIdempotent ==
    (/\ lastOp.op = "remove_reaction"
     /\ lastOp.db.phase = "whole"
     /\ sent # << >>
     /\ <<lastOp.db.message.message_id, lastOp.user, lastOp.db.message.emoji>> \notin lastOp.pre.rx)
    => /\ message_reactions = lastOp.pre.rx
       /\ lastOp.db.count >= 0
       /\ lastOp.db.count = StoredCount(message_reactions)
       /\ DeltaCounts \subseteq {StoredCount(message_reactions)}

\* C22: whatever the order in which the toggles of the peers run, the count a
\* reaction handler computes is the number of rows of that emoji stored for the
\* message when it re-fetches, its own mutation included, and that count is the
\* one every reaction_update of the handler carries.
C22_CountIsRefetched ==
    /\ (lastOp.op \in ReactionOps /\ lastOp.db.phase = "stored")
          => lastOp.db.count = StoredCount(message_reactions)
    /\ (lastOp.op \in ReactionOps /\ lastOp.db.phase = "whole")
          => DeltaCounts \subseteq {StoredCount(message_reactions)}
    /\ (lastOp.op \in ReactionOps /\ lastOp.db.phase = "resumed")
          => DeltaCounts \subseteq {lastOp.pre.rn[lastOp.ws].count}

\* the sockets a chat message with the target of the frame of the step would
\* be written to, in the order of the writes
ChatAudience ==
    LET M1 == send_message(Machine, lastOp.user, Frame(lastOp.a1, lastOp.a2), TRUE, TRUE, {})
    IN  [i \in 1..Len(M1.sent) |-> M1.sent[i].ws]

\* C23: a reaction_update goes to the sockets a chat message for the same
\* target would go to at that time: those of the joined members of the room,
\* or those of the two users of the direct conversation.  Stated for the
\* steps in which both calls of the persistence client returned and no send
\* raised.
C23_DeltaReachesChatAudience ==
    (/\ lastOp.op \in ReactionOps
     /\ lastOp.db.phase = "whole"
     /\ lastOp.db.mutOk /\ lastOp.db.fetchOk
     /\ lastOp.failed = {})
    => [i \in 1..Len(sent) |-> sent[i].ws] = ChatAudience

\* the positions of `sent` that hold a status event about x
StatusEvents(x) == {i \in 1..Len(sent) : sent[i].type = "user_status" /\ sent[i].a = x}

GotOnline(x, y) ==
    \E i \in 1..Len(sent) :
        /\ sent[i].type = "user_status"
        /\ sent[i].a = x /\ sent[i].b = "online" /\ sent[i].to = y

\* x has been registered and its acknowledgement written, while y is registered
OpenedBeside(x, y) ==
    /\ lastOp.op = "connect" /\ lastOp.user = x /\ lastOp.failed = {}
    /\ y \in DOMAIN user_connections

\* C25: whenever the connection of a user x has been opened and acknowledged,
\* every other user y that is registered then is told that x is online (or is
\* itself closed before it could be told).
C25_OnlineAnnounced ==
    \A x \in Pair : \A y \in Pair \ {x} :
        OpenedBeside(x, y) ~> (GotOnline(x, y) \/ y \notin DOMAIN user_connections)

\* the step began the handler of a frame that socket lastOp.ws received
FrameTaken ==
    \/ lastOp.op = "create_message"
    \/ lastOp.op \in ReactionOps /\ lastOp.db.phase \in {"ignored", "stored", "whole"}

\* C26: the handler of a frame of a socket begins only when the handler of the
\* frame before it on that socket has returned: no socket has two handlers
\* under way.
C26_OneHandlerPerSocket ==
    FrameTaken => lastOp.ws \notin DOMAIN lastOp.pre.rn

\* a frame is taken from one socket while the handler of another is suspended
C26_Witness ==
    /\ FrameTaken
    /\ \E h \in DOMAIN lastOp.pre.rn : h # lastOp.ws /\ ws[h] = "open"

\* the sockets whose send_message handler is inside db.create_message
Storing == {h \in DOMAIN running : running[h].at = "create_message"}

\* C27: while the send_message handler of one socket waits for the answer of
\* the store, the event loop can go on with the tasks of the other sockets: a
\* step other than the return of that call can be taken.
C27_OthersRunDuringStore ==
    \A h \in Storing :
        (\E g \in Handles : owner(g) # owner(h) /\ ws[g] = "open" /\ g \notin DOMAIN running)
        => ENABLED LoopSteps

\* C28: opening a connection writes the acknowledgement, and it is the first
\* event on the new socket; when that write raises the user is closed at
\* once: it is in no registry and has no list of joined channels.
C28_AckFirstOrClosed ==
    lastOp.op = "connect"
    => IF lastOp.failed = {}
       THEN /\ sent = <<Ev(lastOp.ws, lastOp.user, "connection_established", lastOp.user, None)>>
            /\ lastOp.user \in DOMAIN user_connections
            /\ user_connections[lastOp.user] = lastOp.ws
       ELSE /\ sent = << >>
            /\ lastOp.failed = {lastOp.ws}
            /\ ClosedUsers = {lastOp.user}
            /\ lastOp.user \notin DOMAIN user_connections
            /\ lastOp.user \notin DOMAIN connected_users
            /\ lastOp.user \notin DOMAIN user_channels

\* the acknowledgement of a user fails while another user is registered
C28_Witness ==
    /\ lastOp.op = "connect"
    /\ lastOp.failed # {}
    /\ ws[lastOp.ws] = "open"
    /\ DOMAIN user_connections # {}

\* how often x is in the list
Count(list, x) == Cardinality({i \in 1..Len(list) : list[i] = x})

\* the lists of the users other than the one of the step are as they were
OthersUntouched ==
    /\ DOMAIN user_channels = DOMAIN lastOp.pre.ch
    /\ \A u \in DOMAIN user_channels \ {lastOp.user} : user_channels[u] = lastOp.pre.ch[u]

\* C29: a join of a registered user leaves the channel exactly once in the list
\* of the user, however often it is repeated: a channel that was in the list
\* leaves the list as it was, a new one is appended.  Every join is echoed with
\* one channel_joined event on the socket of the user and nothing is written
\* to any other socket.  Stated for the joins whose echo could be written.
C29_JoinIdempotent ==
    (/\ lastOp.op = "join_channel"
     /\ lastOp.user \in DOMAIN lastOp.pre.uc
     /\ lastOp.failed = {})
    => /\ Count(user_channels[lastOp.user], lastOp.a1) = 1
       /\ user_channels[lastOp.user] =
             IF Count(lastOp.pre.ch[lastOp.user], lastOp.a1) > 0
             THEN lastOp.pre.ch[lastOp.user]
             ELSE Append(lastOp.pre.ch[lastOp.user], lastOp.a1)
       /\ OthersUntouched
       /\ sent = <<Ev(lastOp.pre.uc[lastOp.user], lastOp.user, "channel_joined", lastOp.a1, lastOp.user)>>

\* a join of a channel the user has joined before, beside another channel
C29_Witness ==
    /\ lastOp.op = "join_channel"
    /\ lastOp.user \in DOMAIN lastOp.pre.uc
    /\ lastOp.failed = {}
    /\ Count(lastOp.pre.ch[lastOp.user], lastOp.a1) = 1
    /\ Len(lastOp.pre.ch[lastOp.user]) = 2
    /\ sent # << >>

\* C30: after a leave of a registered user the channel is not in the list of
\* the user, a leave of a channel that was not in the list changes nothing,
\* the lists of the other users are as they were, and every leave is echoed
\* with one channel_left event on the socket of the user.  Stated for the
\* leaves whose echo, if any, could be written.
C30_LeaveIdempotent ==
    (/\ lastOp.op = "leave_channel"
     /\ lastOp.user \in DOMAIN lastOp.pre.uc
     /\ lastOp.failed = {})
    => /\ Count(user_channels[lastOp.user], lastOp.a1) = 0
       /\ (Count(lastOp.pre.ch[lastOp.user], lastOp.a1) = 0 => user_channels = lastOp.pre.ch)
       /\ OthersUntouched
       /\ sent = <<Ev(lastOp.pre.uc[lastOp.user], lastOp.user, "channel_left", lastOp.a1, lastOp.user)>>

\* C31: right after an open that was acknowledged the list of joined channels
\* of the user is empty, also when the open replaces a connection of the same
\* user that had joined channels; and a channel message is written only to
\* users whose list holds the channel, so the user gets none before it joins
\* again.
C31_MembershipEmptyOnOpen ==
    /\ (lastOp.op = "connect" /\ lastOp.failed = {})
          => /\ lastOp.user \in DOMAIN user_channels
             /\ user_channels[lastOp.user] = << >>
    /\ lastOp.op = "send_message"
          => \A i \in 1..Len(sent) :
                sent[i].type = "new_channel_message"
                => get_channel_uuid(lastOp.a1) \in Channels(lastOp.pre.ch[sent[i].to])

\* an acknowledged open that replaces a connection that had joined a channel
C31_Witness ==
    /\ lastOp.op = "connect" /\ lastOp.failed = {}
    /\ lastOp.user \in DOMAIN lastOp.pre.ch
    /\ lastOp.pre.ch[lastOp.user] # << >>

\* C32: a leave_channel for a channel the user has not joined, and an SFU
\* offer, answer or ice-candidate whose sender is a participant of no video
\* room, are each answered with exactly one error event, written to the socket
\* the frame came from and to no other socket.
C32_NotAMemberIsReported ==
    LET notJoined == /\ lastOp.op = "leave_channel"
                     /\ lastOp.user \in DOMAIN lastOp.pre.ch
                     /\ lastOp.a1 \notin Channels(lastOp.pre.ch[lastOp.user])
        noRoom    == /\ lastOp.op \in Kinds
                     /\ lastOp.a1 # None /\ lastOp.a2 # None
                     /\ ~InARoom(lastOp.pre.vr, lastOp.user)
    IN  (notJoined \/ noRoom)
           => /\ Len(sent) = 1
              /\ sent[1].type = "error"
              /\ sent[1].ws = lastOp.ws

\* C33: when the socket that goes away is not the registered socket of its
\* user, because a later open of the same user replaced it and that later
\* socket is still open, the user stays registered, its list of joined
\* channels and the video rooms are left as they were, and no offline status
\* is broadcast for it.
C33_SupersededCloseIsHarmless ==
    (/\ lastOp.op = "client_disconnect"
     /\ lastOp.user \in DOMAIN lastOp.pre.uc
     /\ lastOp.pre.uc[lastOp.user] # lastOp.ws
     /\ lastOp.pre.ws[lastOp.pre.uc[lastOp.user]] = "open")
       => /\ lastOp.user \in DOMAIN user_connections
          /\ lastOp.user \in DOMAIN user_channels
          /\ user_channels[lastOp.user] = lastOp.pre.ch[lastOp.user]
          /\ video_rooms = lastOp.pre.vr
          /\ OfflineCount(lastOp.user) = 0

\* the reaction_update events of the step that were written for user u
GotDelta(u) == EventsTo(u, {"reaction_update"}) # {}

\* C34: a broadcast to a channel that was suspended in a send and goes on
\* after other users opened or closed connections still writes to every user
\* that was registered and joined when the broadcast began and still is when
\* it goes on; stated for the steps in which no send raised.
C34_SuspendedBroadcastCompletes ==
    (/\ lastOp.op \in ReactionOps
     /\ lastOp.db.phase = "resumed"
     /\ lastOp.a1 # None
     /\ lastOp.failed = {})
       => \A u \in ChannelTargets(lastOp.pre, lastOp.a1) \cap lastOp.pre.rn[lastOp.ws].audience :
             GotDelta(u)

\* C38: a reaction_update that is written after other toggles of the same
\* message and emoji have run carries the count that is stored at that time,
\* so the last reaction_update a user receives carries the final count.  (In
\* SpecFanout every call of the persistence client returns, and the table is
\* changed by the reaction handlers only.)
C38_LastDeltaIsFinal ==
    (/\ lastOp.op \in ReactionOps
     /\ lastOp.db.phase = "resumed")
       => DeltaCounts \subseteq {StoredCount(message_reactions)}

\* the steps that write one event to every registered socket: the join and
\* leave notifications of the older call protocol, and its signaling frames
\* that name no user
FansOut ==
    \/ lastOp.op \in {"webrtc_join_room", "webrtc_leave_room"}
    \/ lastOp.op \in WebrtcKinds /\ lastOp.a1 = None

\* C35: when a send of such a fan-out fails, every registered user whose send
\* did not fail (other than the sender, for the join and leave notifications)
\* still receives the event, the users that are disconnected are those whose
\* send failed, and the sender stays registered with its list of joined
\* channels and its video rooms as they were.
C35_FanOutSurvivesFailure ==
    (/\ FansOut
     /\ lastOp.failed # {}
     /\ lastOp.user \in DOMAIN lastOp.pre.uc
     /\ lastOp.pre.uc[lastOp.user] \notin lastOp.failed)
       => /\ \A u \in DOMAIN lastOp.pre.uc :
                (/\ lastOp.pre.uc[u] \notin lastOp.failed
                 /\ (lastOp.op \in WebrtcKinds \/ u # lastOp.user))
                   => \E i \in 1..Len(sent) : sent[i].to = u
          /\ ClosedUsers = {owner(h) : h \in lastOp.failed}
          /\ lastOp.user \in DOMAIN user_connections
          /\ lastOp.user \in DOMAIN user_channels
          /\ user_channels[lastOp.user] = lastOp.pre.ch[lastOp.user]
          /\ \A i \in 1..Len(lastOp.pre.vr) :
                lastOp.user \in lastOp.pre.vr[i].parts
                   => \E j \in 1..Len(video_rooms) :
                         /\ video_rooms[j].id = lastOp.pre.vr[i].id
                         /\ lastOp.user \in video_rooms[j].parts

\* the users a stored chat message of the step is due to: the registered
\* members of the channel, or the registered ones of recipient and sender
StoredAudience ==
    IF lastOp.a1 # None THEN BroadcastMembers(lastOp.a1)
    ELSE {lastOp.a2, lastOp.user} \cap DOMAIN lastOp.pre.uc

\* C36: whenever send_message has stored the message, the handler does not
\* return before a chat event was written for every user of the audience;
\* stated for the steps in which no send raised.
C36_StoredIsFannedOut ==
    (/\ lastOp.op = "send_message"
     /\ lastOp.db \in StoredOutcomes
     /\ lastOp.failed = {})
       => \A u \in StoredAudience : EventsTo(u, ChatTypes) # {}

\* C37: every participant of every video room is a registered user; a user
\* that a failed send has removed from the registry is a participant of no
\* room, also after frames that its socket, still open, sends afterwards.
C37_ParticipantsAreRegistered ==
    \A i \in 1..Len(video_rooms) : video_rooms[i].parts \subseteq DOMAIN user_connections

\* C39: in every state the users that have a list of joined channels are the
\* users of user_connections, and connected_users has the same users.
C39_SameKeySets ==
    /\ DOMAIN user_channels = DOMAIN user_connections
    /\ DOMAIN connected_users = DOMAIN user_connections

\* a step that disconnected a registered user and left another user registered
C39_Witness ==
    /\ ClosedUsers \cap DOMAIN lastOp.pre.uc # {}
    /\ DOMAIN user_connections # {}
    /\ DOMAIN user_channels # {}

====
